---- MODULE Spec2Model ----
(***************************************************************************)
(* Model of the multi-level Google suggestion collector of src/app.py      *)
(* (get_google_suggestions, get_google_suggestions_multilevel) and of the  *)
(* analysis button handler that runs it over the input keyword lines, and  *)
(* of consolidate_and_deduplicate and generate_questions_from_themes of    *)
(* the same file, each called alone.                                       *)
(*                                                                         *)
(* Texts are sequences of one-character strings, so that str.lower() and   *)
(* str.strip() are computed on the characters and are not the identity.    *)
(***************************************************************************)
EXTENDS Integers, Sequences, FiniteSets, TLC

VARIABLES
    args,                  \* arguments of get_google_suggestions_multilevel
    pc,                    \* position in get_google_suggestions_multilevel
    all_suggestions,       \* its local list of records (the returned list)
    processed_suggestions, \* its local visited set
    loop_copy,             \* all_suggestions.copy() iterated by the level-2 loop
    loop_index,            \* index of the next element of the running for loop
    level2_parents,        \* its local list of the level-2 records
    calls,                 \* log of the calls of get_google_suggestions, in issue order
    first_return,          \* log: per normalized text, the first call that returned it (level, query, rank)
    observed,              \* log: "cut" a response exceeded the limit, "again" a call returned a text of an earlier call
    service_texts,         \* the strings the suggestion service answers with in this behaviour
    keywords_input,        \* lines of the text area of the analysis tab
    sliders,               \* level1_count, level2_count, level3_count of the analysis tab
    keywords,              \* handler local: stripped non-empty lines
    kw_index,              \* handler: index of the keyword being collected
    run_pc,                \* position in the analysis button handler
    run_all_suggestions,   \* handler local all_suggestions (extended per keyword)
    run_got_suggestion,    \* log: some call of the run returned at least one suggestion
    shown,                 \* st.error / st.warning messages shown by the handler
    session,               \* st.session_state: analysis_results, analysis_metadata, themes_selection
    widgets,               \* widget values of the running script: checkboxes, slider, inputs
    page,                  \* what the script has rendered: questions export, theme selection
    ui_action,             \* the button that started the running script
    ui_outcome,            \* how the handler of the running script ended
    cons_args,             \* arguments of consolidate_and_deduplicate: questions_data, target_count
    cons_pc,               \* position in consolidate_and_deduplicate
    item_index,            \* index of the next item of its for loop over questions_data
    question_stats,        \* its local dict, as the list of its entries in insertion order
    final_questions,       \* its local list (the returned list)
    gen_args,              \* arguments of generate_questions_from_themes: client, themes, target_count
    gen_pc,                \* position in generate_questions_from_themes
    sorted_themes,         \* its local list of the themes, by importance
    theme_index,           \* index i of its for loop over sorted_themes (from 0)
    remaining_questions,   \* its local counter
    all_questions,         \* its local list (the returned list)
    requests,              \* log of the calls of call_gpt4o_mini: theme index, questions asked, questions in the response
    main_in,               \* 1_advanced_scrap.py main: its argument, the categories file and the answers typed
    main_pc,               \* position in main
    selected_categories,   \* main local: the categories passed to the constructor
    extractor,             \* the attributes of the GoogleSuggestExtractor built
    async_pc,              \* position in _get_suggestions_async
    attempt,               \* its loop variable
    async_events,          \* log of its attempts and of its waits, in order
    async_return,          \* the list it returned
    ext_pc,                \* position in extract_all
    progress,              \* extract_all local: the four progress flags
    query_index,           \* number of queries of the running collection already answered
    temp_results,          \* self.temp_results
    results,               \* self.results: suggests_level1, suggests_level2
    processed_queries,     \* collect_level2_suggestions local: the queries already made
    extract_return         \* the result extract_all returned

collectVars == <<args, pc, all_suggestions, processed_suggestions, loop_copy,
                 loop_index, level2_parents, calls, first_return, observed>>
uiVars == <<widgets, page, ui_action, ui_outcome>>
runVars == <<service_texts, keywords_input, sliders, keywords, kw_index, run_pc,
             run_all_suggestions, shown, session, uiVars>>
consVars == <<cons_args, cons_pc, item_index, question_stats, final_questions>>
genVars == <<gen_args, gen_pc, sorted_themes, theme_index, remaining_questions,
             all_questions, requests>>
mainVars == <<main_in, main_pc, selected_categories, extractor>>
asyncVars == <<async_pc, attempt, async_events, async_return>>
extractVars == <<ext_pc, progress, query_index, temp_results, results, processed_queries,
                 extract_return>>
scrapVars == <<mainVars, asyncVars, extractVars>>
pureVars == <<consVars, genVars, scrapVars>>
vars == <<collectVars, runVars, run_got_suggestion, pureVars>>

----------------------------------------------------------------------------
(* Bounds of the model *)

\* longest list the suggestion service answers with (it may exceed the limit asked)
MaxResp == 2
\* largest value of level1_count, level2_count, level3_count
MaxCount == 2
\* most lines typed in the keyword text area
MaxLines == 2

----------------------------------------------------------------------------
(* Texts *)

None == <<"None">>

kw_K == <<"K">>
txt_ksp == <<"k", " ">>
txt_a == <<"a">>
txt_B == <<"B">>
txt_c == <<"c">>
txt_d == <<"d">>
txt_blank == <<" ">>
line_spK == <<" ", "K">>

\* the seeds get_google_suggestions_multilevel is called with
Seeds == {kw_K}
\* the strings the suggestion service may return: with an echo of the seed,
Texts == {txt_ksp, txt_a, txt_B, txt_c}
\* with four suggestions and no echo,
OrderTexts == {txt_a, txt_B, txt_c, txt_d}
\* and in an analysis run over several keywords
RunTexts == {txt_ksp, txt_a, txt_B}
\* the lines a user may type
Lines == {kw_K, line_spK, txt_a, txt_blank}

\* str.lower() on one character
LowerChar(c) == CASE c = "B" -> "b" [] c = "K" -> "k" [] OTHER -> c

\* str.lower()
Lower(s) == [i \in 1..Len(s) |-> LowerChar(s[i])]

IsSpace(c) == c = " "

RECURSIVE LStrip(_)
LStrip(s) == IF s # <<>> /\ IsSpace(Head(s)) THEN LStrip(Tail(s)) ELSE s

RECURSIVE RStrip(_)
RStrip(s) == IF s # <<>> /\ IsSpace(s[Len(s)]) THEN RStrip(SubSeq(s, 1, Len(s) - 1)) ELSE s

\* str.strip()
Strip(s) == RStrip(LStrip(s))

\* every string of the model
AllTexts == Seeds \cup Texts \cup OrderTexts \cup RunTexts \cup Lines

\* normalized = suggestion.lower().strip(), computed once per string
NormalizedOf == [t \in AllTexts |-> Strip(Lower(t))]

Normalized_NoLower(s) == Strip(s)
Normalized(s) == NormalizedOf[s]

\* lowercasing and trimming as the claims state them, kept apart from the code's line
LowerTrimOf == [t \in AllTexts |-> LStrip(RStrip([i \in 1..Len(t) |-> LowerChar(t[i])]))]

LowerTrim(s) == LowerTrimOf[s]

Min(a, b) == IF a < b THEN a ELSE b

\* python slice seq[:n]: the first n elements, and for n < 0 all but the last -n
Slice(seq, n) ==
    IF n >= 0 THEN SubSeq(seq, 1, Min(n, Len(seq)))
              ELSE SubSeq(seq, 1, Len(seq) + n)

\* all sequences over S of length at most n
SeqsUpTo(S, n) == UNION {[1..m -> S] : m \in 0..n}

----------------------------------------------------------------------------
(* get_google_suggestions *)

\* what requests.get / raise_for_status / response.json()[1] can produce
OutcomesOf ==
    [T \in {Texts, OrderTexts, RunTexts} |->
        {[kind |-> k, body |-> <<>>] : k \in {"exception", "timeout", "http_error"}}
        \cup {[kind |-> "ok", body |-> b] : b \in SeqsUpTo(T, MaxResp)}]

Outcomes == OutcomesOf[service_texts]

\* try: ... return response.json()[1][:max_suggestions]  except Exception: return []
GetSuggestions_NoCatch(outcome, max_suggestions) ==
    IF outcome.kind = "ok"
        THEN [raised |-> FALSE, value |-> Slice(outcome.body, max_suggestions)]
        ELSE [raised |-> TRUE, value |-> <<>>]
GetSuggestions_NoSlice(outcome, max_suggestions) ==
    IF outcome.kind = "ok"
        THEN [raised |-> FALSE, value |-> outcome.body]
        ELSE [raised |-> FALSE, value |-> <<>>]
get_google_suggestions(outcome, max_suggestions) ==
    IF outcome.kind = "ok"
        THEN [raised |-> FALSE, value |-> Slice(outcome.body, max_suggestions)]
        ELSE [raised |-> FALSE, value |-> <<>>]

----------------------------------------------------------------------------
(* get_google_suggestions_multilevel *)

Record(keyword, niveau, suggestion, parent) ==
    [MotCle |-> keyword, Niveau |-> niveau, Suggestion |-> suggestion, Parent |-> parent]

\* if normalized not in processed_suggestions
NotProcessed_Always(normalized, processed) == TRUE
NotProcessed(normalized, processed) == normalized \notin processed

\* for suggestion in suggestions: ... append the record, add to the visited set
RECURSIVE ProcessLoop(_, _, _, _, _, _)
ProcessLoop(suggestions, recs, processed, keyword, niveau, parent) ==
    IF suggestions = <<>>
        THEN [all |-> recs, processed |-> processed]
        ELSE LET suggestion == Head(suggestions)
                 normalized == Normalized(suggestion)
             IN  IF NotProcessed(normalized, processed)
                     THEN ProcessLoop(Tail(suggestions),
                                      Append(recs, Record(keyword, niveau, suggestion, parent)),
                                      processed \cup {normalized}, keyword, niveau, parent)
                     ELSE ProcessLoop(Tail(suggestions), recs, processed, keyword, niveau, parent)

\* the for loop of one level, fed with the list the call returned
ForSuggestions_Reversed(suggestions, recs, processed, keyword, niveau, parent) ==
    ProcessLoop([i \in 1..Len(suggestions) |-> suggestions[Len(suggestions) + 1 - i]],
                recs, processed, keyword, niveau, parent)
ForSuggestions(suggestions, recs, processed, keyword, niveau, parent) ==
    ProcessLoop(suggestions, recs, processed, keyword, niveau, parent)

\* the log of the first call that returned each normalized text
NoCall == [niveau |-> 0, query |-> None, rank |-> 0]

\* rank: the texts are numbered in the order of their first return
RECURSIVE LogFirst(_, _, _, _)
LogFirst(suggestions, log, niveau, query) ==
    IF suggestions = <<>> THEN log
    ELSE LET n == LowerTrim(Head(suggestions))
             rank == Cardinality({k \in DOMAIN log : log[k] # NoCall}) + 1
         IN  LogFirst(Tail(suggestions),
                      IF log[n] = NoCall
                          THEN [log EXCEPT ![n] = [niveau |-> niveau, query |-> query, rank |-> rank]]
                          ELSE log,
                      niveau, query)

\* what a call shows: its answer was cut to the limit, it returned a text an earlier call returned
Observe(outcome, value) ==
    (IF Len(outcome.body) > Len(value) THEN {"cut"} ELSE {})
    \cup (IF \E i \in DOMAIN value : first_return[LowerTrim(value[i])] # NoCall
            THEN {"again"} ELSE {})

Keys == {LowerTrim(t) : t \in AllTexts}

\* if suggestion_data['Niveau'] == 1: (line 196)
IsLevel1_Any(suggestion_data) == TRUE
IsLevel1(suggestion_data) == suggestion_data.Niveau = 1

\* 'Parent': suggestion_data['Suggestion Google'] (lines 206, 226)
ParentOf_Seed(suggestion_data) == suggestion_data.MotCle
ParentOf(suggestion_data) == suggestion_data.Suggestion

\* if enable_level2: (line 193)
AfterLevel1_NoGate(a) == "level2"
AfterLevel1(a) == IF a.enable_level2 THEN "level2" ELSE "done"

\* if enable_level3: for suggestion_data in level2_parents (lines 215-216)
AfterLevel2(a, parents) == IF a.enable_level3 /\ parents # <<>> THEN "level3" ELSE "done"

\* lines 166-176: the state of the function before its first call
Entered(a) ==
    [args |-> a,
     pc |-> "level1",
     all_suggestions |-> <<Record(a.keyword, 0, a.keyword, None)>>,
     processed_suggestions |-> {Normalized(a.keyword)},
     loop_copy |-> <<>>,
     loop_index |-> 0,
     level2_parents |-> <<>>,
     calls |-> <<>>,
     first_return |-> [k \in Keys |-> NoCall],
     observed |-> {}]

\* no call of the function is running
NoArgs == [keyword |-> None, level1_count |-> 0, level2_count |-> 0, level3_count |-> 0,
           enable_level2 |-> FALSE, enable_level3 |-> FALSE]

NotEntered ==
    [args |-> NoArgs, pc |-> "idle", all_suggestions |-> <<>>, processed_suggestions |-> {},
     loop_copy |-> <<>>, loop_index |-> 0, level2_parents |-> <<>>, calls |-> <<>>,
     first_return |-> [k \in Keys |-> NoCall], observed |-> {}]

InitCollect(e) ==
    /\ args = e.args
    /\ pc = e.pc
    /\ all_suggestions = e.all_suggestions
    /\ processed_suggestions = e.processed_suggestions
    /\ loop_copy = e.loop_copy
    /\ loop_index = e.loop_index
    /\ level2_parents = e.level2_parents
    /\ calls = e.calls
    /\ first_return = e.first_return
    /\ observed = e.observed

SetCollect(e) ==
    /\ args' = e.args
    /\ pc' = e.pc
    /\ all_suggestions' = e.all_suggestions
    /\ processed_suggestions' = e.processed_suggestions
    /\ loop_copy' = e.loop_copy
    /\ loop_index' = e.loop_index
    /\ level2_parents' = e.level2_parents
    /\ calls' = e.calls
    /\ first_return' = e.first_return
    /\ observed' = e.observed

ArgSets ==
    [keyword : Seeds,
     level1_count : 0..MaxCount, level2_count : 0..MaxCount, level3_count : 0..MaxCount,
     enable_level2 : BOOLEAN, enable_level3 : BOOLEAN]

\* one call of get_google_suggestions and the log of it
Call(query, niveau, max_suggestions, outcome, r) ==
    /\ r = get_google_suggestions(outcome, max_suggestions)
    /\ calls' = Append(calls, [query |-> query, niveau |-> niveau, ok |-> outcome.kind = "ok"])
    /\ first_return' = LogFirst(r.value, first_return, niveau, query)
    /\ observed' = observed \cup Observe(outcome, r.value)
    /\ run_got_suggestion' = (run_got_suggestion \/ r.value # <<>>)

\* lines 178-193: the call for the seed and the level-1 loop
Level1 ==
    /\ pc = "level1"
    /\ \E outcome \in Outcomes :
         \E r \in {get_google_suggestions(outcome, args.level1_count)} :
            /\ Call(args.keyword, 1, args.level1_count, outcome, r)
            /\ IF r.raised
                 THEN /\ pc' = "raised"
                      /\ UNCHANGED <<all_suggestions, processed_suggestions, loop_copy, loop_index>>
                 ELSE LET res == ForSuggestions(r.value, all_suggestions, processed_suggestions,
                                                args.keyword, 1, args.keyword)
                      IN  /\ all_suggestions' = res.all
                          /\ processed_suggestions' = res.processed
                          /\ pc' = AfterLevel1(args)
                          /\ loop_copy' = IF AfterLevel1(args) = "level2" THEN res.all ELSE <<>>
                          /\ loop_index' = IF AfterLevel1(args) = "level2" THEN 1 ELSE 0
    /\ UNCHANGED <<args, level2_parents>>

\* leaving the level-2 loop after element i of the copy
LeaveLevel2(i, parents) ==
    IF i < Len(loop_copy)
        THEN /\ pc' = "level2"
             /\ loop_index' = i + 1
        ELSE /\ pc' = AfterLevel2(args, parents)
             /\ loop_index' = IF AfterLevel2(args, parents) = "level3" THEN 1 ELSE 0

\* lines 195-196: an element of the copy that is not a level-1 record is skipped
Level2Skip ==
    /\ pc = "level2"
    /\ ~IsLevel1(loop_copy[loop_index])
    /\ LeaveLevel2(loop_index, level2_parents)
    /\ UNCHANGED <<args, all_suggestions, processed_suggestions, loop_copy, level2_parents,
                   calls, first_return, observed, run_got_suggestion>>

\* lines 196-212: the call for one level-1 record and its loop
Level2 ==
    /\ pc = "level2"
    /\ IsLevel1(loop_copy[loop_index])
    /\ LET suggestion_data == loop_copy[loop_index] IN
       \E outcome \in Outcomes :
         \E r \in {get_google_suggestions(outcome, args.level2_count)} :
            /\ Call(suggestion_data.Suggestion, 2, args.level2_count, outcome, r)
            /\ IF r.raised
                 THEN /\ pc' = "raised"
                      /\ UNCHANGED <<all_suggestions, processed_suggestions, level2_parents, loop_index>>
                 ELSE LET res == ForSuggestions(r.value, all_suggestions, processed_suggestions,
                                                args.keyword, 2, ParentOf(suggestion_data))
                          parents == level2_parents \o
                                     SubSeq(res.all, Len(all_suggestions) + 1, Len(res.all))
                      IN  /\ all_suggestions' = res.all
                          /\ processed_suggestions' = res.processed
                          /\ level2_parents' = parents
                          /\ LeaveLevel2(loop_index, parents)
    /\ UNCHANGED <<args, loop_copy>>

\* lines 216-230: the call for one level-2 record and its loop
Level3 ==
    /\ pc = "level3"
    /\ LET suggestion_data == level2_parents[loop_index] IN
       \E outcome \in Outcomes :
         \E r \in {get_google_suggestions(outcome, args.level3_count)} :
            /\ Call(suggestion_data.Suggestion, 3, args.level3_count, outcome, r)
            /\ IF r.raised
                 THEN /\ pc' = "raised"
                      /\ UNCHANGED <<all_suggestions, processed_suggestions, loop_index>>
                 ELSE LET res == ForSuggestions(r.value, all_suggestions, processed_suggestions,
                                                args.keyword, 3, ParentOf(suggestion_data))
                      IN  /\ all_suggestions' = res.all
                          /\ processed_suggestions' = res.processed
                          /\ IF loop_index < Len(level2_parents)
                               THEN /\ pc' = "level3"
                                    /\ loop_index' = loop_index + 1
                               ELSE /\ pc' = "done"
                                    /\ loop_index' = 0
    /\ UNCHANGED <<args, loop_copy, level2_parents>>


----------------------------------------------------------------------------
(* The analysis button handler (src/app.py lines 783-987) *)

\* python None where st.session_state holds a dict
NoneValue == [stage |-> "None"]

\* lines 28-31, 795-797
NoSession ==
    [analysis_results |-> NoneValue, analysis_metadata |-> NoneValue, themes_selection |-> NoneValue]

\* slider "Suggestions niveau 1": min_value=2
Level1Min == 2

Max(a, b) == IF a > b THEN a ELSE b

SliderSets ==
    [level1_count : Level1Min..Max(Level1Min, MaxCount),
     level2_count : 0..MaxCount, level3_count : 0..MaxCount]

\* line 787: keywords = [kw.strip() for kw in keywords_input.split('\n') if kw.strip()]
RECURSIVE StripLines(_)
StripLines(lines) ==
    IF lines = <<>> THEN <<>>
    ELSE IF Strip(Head(lines)) # <<>>
        THEN <<Strip(Head(lines))>> \o StripLines(Tail(lines))
        ELSE StripLines(Tail(lines))

\* lines 805-806 and 814-822: the arguments the handler calls the function with
EnableLevel3(sl) == sl.level3_count > 0 /\ sl.level2_count > 0

CallArgs(keyword, sl) ==
    [keyword |-> keyword,
     level1_count |-> sl.level1_count, level2_count |-> sl.level2_count,
     level3_count |-> sl.level3_count,
     enable_level2 |-> sl.level2_count > 0,
     enable_level3 |-> EnableLevel3(sl)]

\* lines 783-814: the click on "Analyser les suggestions", up to the first call of the function
ClickAnalyze ==
    /\ run_pc = "idle"
    /\ keywords_input # <<>>
    /\ LET kws == StripLines(keywords_input) IN
       /\ keywords' = kws
       /\ IF kws = <<>>
            THEN /\ shown' = shown \cup {"no_keyword"}
                 /\ run_pc' = "end"
                 /\ kw_index' = 0
                 /\ UNCHANGED <<session, collectVars>>
            ELSE /\ session' = NoSession
                 /\ shown' = shown
                 /\ run_pc' = "collecting"
                 /\ kw_index' = 1
                 /\ SetCollect(Entered(CallArgs(kws[1], sliders)))
    /\ run_all_suggestions' = <<>>
    /\ run_got_suggestion' = FALSE
    /\ UNCHANGED <<service_texts, keywords_input, sliders>>

\* lines 813-823: the function returned; all_suggestions.extend(keyword_suggestions),
\* then the next keyword
NextKeyword ==
    /\ run_pc = "collecting"
    /\ pc = "done"
    /\ run_all_suggestions' = run_all_suggestions \o all_suggestions
    /\ IF kw_index < Len(keywords)
         THEN /\ kw_index' = kw_index + 1
              /\ run_pc' = "collecting"
              /\ SetCollect(Entered(CallArgs(keywords[kw_index + 1], sliders)))
         ELSE /\ kw_index' = kw_index
              /\ run_pc' = "collected"
              /\ SetCollect(NotEntered)
    /\ UNCHANGED <<service_texts, keywords_input, sliders, keywords, shown, session,
                   run_got_suggestion>>

\* lines 828-987: after the collection. The enrichment and the theme analysis are
\* outside this model: they either raise (lines 983-987) or let the results be stored.
AfterCollection ==
    /\ run_pc = "collected"
    /\ IF run_all_suggestions = <<>>
         THEN /\ shown' = shown \cup {"no_suggestion"}
              /\ UNCHANGED session
         ELSE \E raised \in BOOLEAN :
                IF raised
                    THEN /\ shown' = shown \cup {"analysis_error"}
                         /\ UNCHANGED session
                    ELSE /\ shown' = shown
                         /\ session' =
                              [session EXCEPT
                                 !.analysis_results =
                                     [stage |-> "themes_analyzed",
                                      all_suggestions |-> run_all_suggestions],
                                 !.analysis_metadata =
                                     [stage |-> "metadata", keywords |-> keywords]]
    /\ run_pc' = "end"
    /\ UNCHANGED <<service_texts, keywords_input, sliders, keywords, kw_index,
                   run_all_suggestions, run_got_suggestion, collectVars>>

----------------------------------------------------------------------------
(* The script runs of the page: sidebar export, analysis button, Clear button, *)
(* theme selection and question generation (src/app.py lines 28-31, 314-339,   *)
(* 783-1164)                                                                    *)

\* most themes found by an analysis
MaxUIThemes == 2
\* longest list of generated questions
MaxQuestions == 2

\* slider "Nombre de questions finales": min_value=5
FinalQuestionsMin == 5

\* Score_Importance of a generated question
ImportanceScores == {1, 2}

\* the themes question_generator.analyze_suggestions_themes finds, by number
ThemeSets == SUBSET (1..MaxUIThemes)

\* the questions question_generator.generate_questions_from_themes returns over the
\* selected keywords, by importance score
QuestionLists == SeqsUpTo(ImportanceScores, MaxQuestions)

\* lines 39, 97-111, 747, 1043-1054: the widget values a script run reads
WidgetSets ==
    [api_key : BOOLEAN, generate_questions : BOOLEAN,
     final_questions_count : {FinalQuestionsMin, FinalQuestionsMin + 1},
     has_keywords_input : BOOLEAN, has_keywords : BOOLEAN, selected_themes : ThemeSets]

NoWidgets ==
    [api_key |-> FALSE, generate_questions |-> FALSE,
     final_questions_count |-> FinalQuestionsMin,
     has_keywords_input |-> FALSE, has_keywords |-> FALSE, selected_themes |-> {}]

NoPage == [questions_export |-> FALSE, theme_selection |-> FALSE]

UINotEntered ==
    /\ widgets = NoWidgets
    /\ page = NoPage
    /\ ui_action = "none"
    /\ ui_outcome = "none"

\* lines 314-323: the condition of the questions download button
QuestionsExport(s) ==
    /\ s.analysis_results # NoneValue
    /\ s.analysis_metadata.generate_questions
    /\ s.analysis_results.stage = "questions_generated"
    /\ "final_consolidated_data" \in DOMAIN s.analysis_results
    /\ Len(s.analysis_results.final_consolidated_data) > 0

\* lines 997-999: the condition of the theme selection section
ThemeSelectionShown(s) ==
    /\ s.analysis_results # NoneValue
    /\ s.analysis_results.stage = "themes_analyzed"
    /\ s.analysis_metadata.generate_questions

\* lines 783-793: the condition of the analysis button
AnalyzeButtonShown(w) ==
    w.has_keywords_input /\ ~(w.generate_questions /\ ~w.api_key)

\* lines 795-797 and 991-993
ResetResults_Keep(s) == s
ResetResults(s) ==
    [s EXCEPT !.analysis_results = NoneValue, !.analysis_metadata = NoneValue,
              !.themes_selection = NoneValue]

\* lines 950-974
StoreResults(s, themes, w) ==
    [s EXCEPT
       !.analysis_results =
           [stage |-> "themes_analyzed",
            themes_analysis |-> IF w.generate_questions THEN themes ELSE {}],
       !.analysis_metadata =
           [stage |-> "metadata", generate_questions |-> w.generate_questions,
            final_questions_count |->
                IF w.generate_questions THEN w.final_questions_count ELSE 0]]

\* lines 1131-1136: sorted(all_questions_data, key=Score_Importance, reverse=True)
SortByImportance(questions) ==
    SelectSeq(questions, LAMBDA q : q = 2) \o SelectSeq(questions, LAMBDA q : q = 1)

\* line 1129: if all_questions_data
HasQuestions_Always(all_questions_data) == TRUE
HasQuestions(all_questions_data) == all_questions_data # <<>>

\* lines 1131-1145: analysis_results.update(...)
UpdateResults(s, all_questions_data, selected) ==
    [s EXCEPT
       !.analysis_results =
           [stage |-> "questions_generated",
            themes_analysis |-> s.analysis_results.themes_analysis,
            all_questions_data |-> all_questions_data,
            final_consolidated_data |->
                Slice(SortByImportance(all_questions_data),
                      s.analysis_metadata.final_questions_count),
            selected_themes_by_keyword |-> selected]]

uiRest == <<service_texts, keywords_input, sliders, keywords, kw_index,
            run_all_suggestions, shown, run_got_suggestion, collectVars, pureVars>>

\* a click or a widget change starts a script run; the generation button is on the
\* page only under the theme selection section with at least one theme selected
\* (lines 1068-1071)
UIEvent ==
    /\ run_pc = "page"
    /\ \E action \in {"analyze", "clear", "generate", "other"}, w \in WidgetSets :
         /\ w.has_keywords => w.has_keywords_input
         /\ action = "analyze" => AnalyzeButtonShown(w)
         /\ IF action = "generate"
              THEN /\ page.theme_selection
                   /\ w.selected_themes # {}
                   /\ w.selected_themes \subseteq session.analysis_results.themes_analysis
              ELSE w.selected_themes = {}
         /\ widgets' = w
         /\ ui_action' = action
    /\ ui_outcome' = "none"
    /\ run_pc' = "sidebar"
    /\ UNCHANGED <<session, page, uiRest>>

\* lines 314-339: the sidebar of a script run
UISidebar ==
    /\ run_pc = "sidebar"
    /\ page' = [questions_export |-> QuestionsExport(session), theme_selection |-> FALSE]
    /\ run_pc' = "tab"
    /\ UNCHANGED <<session, widgets, ui_action, ui_outcome, uiRest>>

\* lines 789-797: the analysis button was clicked
UIAnalyzeStart ==
    /\ run_pc = "tab"
    /\ ui_action = "analyze"
    /\ IF ~widgets.has_keywords
         THEN /\ ui_outcome' = "no_keyword"
              /\ run_pc' = "gate"
              /\ UNCHANGED session
         ELSE /\ session' = ResetResults(session)
              /\ run_pc' = "analysing"
              /\ UNCHANGED ui_outcome
    /\ UNCHANGED <<widgets, page, ui_action, uiRest>>

\* lines 799-948, 983-987: the collection, the enrichment or the theme analysis raises
UIAnalyzeRaises ==
    /\ run_pc = "analysing"
    /\ ui_outcome' = "analysis_error"
    /\ run_pc' = "gate"
    /\ UNCHANGED <<session, widgets, page, ui_action, uiRest>>

\* lines 949-981: the results are stored and the script is run again
UIAnalyzeStores ==
    /\ run_pc = "analysing"
    /\ \E themes \in ThemeSets : session' = StoreResults(session, themes, widgets)
    /\ ui_outcome' = "stored"
    /\ ui_action' = "rerun"
    /\ run_pc' = "sidebar"
    /\ UNCHANGED <<widgets, page, uiRest>>

\* lines 989-994: the Clear button was clicked
UIClear ==
    /\ run_pc = "tab"
    /\ ui_action = "clear"
    /\ session' = ResetResults(session)
    /\ ui_outcome' = "cleared"
    /\ ui_action' = "rerun"
    /\ run_pc' = "sidebar"
    /\ UNCHANGED <<widgets, page, uiRest>>

\* neither button of lines 789 and 990 was clicked
UINoButton ==
    /\ run_pc = "tab"
    /\ ui_action \notin {"analyze", "clear"}
    /\ run_pc' = "gate"
    /\ UNCHANGED <<session, widgets, page, ui_action, ui_outcome, uiRest>>

\* lines 996-1072: the theme selection section and its generation button
UIThemeSelection ==
    /\ run_pc = "gate"
    /\ page' = [page EXCEPT !.theme_selection = ThemeSelectionShown(session)]
    /\ run_pc' = IF /\ ThemeSelectionShown(session)
                    /\ Cardinality(widgets.selected_themes) > 0
                    /\ ui_action = "generate"
                    THEN "generating" ELSE "page"
    /\ UNCHANGED <<session, widgets, ui_action, ui_outcome, uiRest>>

\* lines 1074-1127, 1161-1164: the generation raises
UIGenerateRaises ==
    /\ run_pc = "generating"
    /\ ui_outcome' = "generation_error"
    /\ run_pc' = "page"
    /\ UNCHANGED <<session, widgets, page, ui_action, uiRest>>

\* lines 1074-1159: the generation ends; with a question the results are updated and
\* the script is run again
UIGenerateDone ==
    /\ run_pc = "generating"
    /\ \E all_questions_data \in QuestionLists :
         IF HasQuestions(all_questions_data)
           THEN /\ session' = UpdateResults(session, all_questions_data,
                                            widgets.selected_themes)
                /\ ui_outcome' = "generated"
                /\ ui_action' = "rerun"
                /\ run_pc' = "sidebar"
           ELSE /\ ui_outcome' = "no_question"
                /\ run_pc' = "page"
                /\ UNCHANGED <<session, ui_action>>
    /\ UNCHANGED <<widgets, page, uiRest>>

----------------------------------------------------------------------------
(* consolidate_and_deduplicate *)

\* longest question_data list
MaxCands == 3
\* largest target_count of consolidate_and_deduplicate
MaxTarget == 2
\* longest question text of the normalization cases
MaxText == 3
\* longest question text of the cases with two questions
MaxPairText == 2
\* longest question_data list of the ranking cases
MaxRank == 4

q_b == <<"b">>
q_Bx == <<" ", "B", "!">>
q_c == <<"c">>
q_d == <<"d">>

\* the characters of the question texts of the normalization cases
QChars == {"b", "B", "_", "!", " "}

\* \w of a python str pattern: the alphanumeric characters and the underscore
IsWord(c) == c \in {"a", "b", "c", "d", "k", "B", "K", "_"}

\* re.sub(r'[^\w\s]', '', s)
RemoveNonWord(s) == SelectSeq(s, LAMBDA c : IsWord(c) \/ IsSpace(c))

\* line 245: normalized = re.sub(r'[^\w\s]', '', question.lower()).strip()
NormalizeQuestion_StripFirst(question) == RemoveNonWord(Strip(Lower(question)))
NormalizeQuestion(question) == Strip(RemoveNonWord(Lower(question)))

\* an item of questions_data
Item(question, suggestion, keyword) ==
    [Question |-> question, Suggestion |-> suggestion, MotCle |-> keyword]

\* position of the entry of a key in the dict, 0 when the key is not in it
RECURSIVE IndexOfKey(_, _)
IndexOfKey(stats, normalized) ==
    IF stats = <<>> THEN 0
    ELSE IF stats[Len(stats)].normalized = normalized THEN Len(stats)
    ELSE IndexOfKey(SubSeq(stats, 1, Len(stats) - 1), normalized)

\* x not in list, then list.append(x)
AppendNew_Always(list, x) == Append(list, x)
AppendNew(list, x) == IF \E i \in 1..Len(list) : list[i] = x THEN list ELSE Append(list, x)

\* lines 247-254: the entry of a key seen for the first time
NewEntry(item, question, normalized) ==
    [normalized |-> normalized,
     original_question |-> question,
     count |-> 1,
     suggestions |-> <<item.Suggestion>>,
     keywords |-> <<item.MotCle>>,
     first_occurrence |-> item]

\* lines 255-260: the entry of a key seen again
Merged_NoCount(entry, item) ==
    [entry EXCEPT !.suggestions = AppendNew(@, item.Suggestion),
                  !.keywords = AppendNew(@, item.MotCle)]
Merged(entry, item) ==
    [entry EXCEPT !.count = @ + 1,
                  !.suggestions = AppendNew(@, item.Suggestion),
                  !.keywords = AppendNew(@, item.MotCle)]

\* lines 242-260: one iteration of the for loop
Accumulate(stats, item) ==
    LET question == Strip(item.Question)
        normalized == NormalizeQuestion(question)
        at == IndexOfKey(stats, normalized)
    IN  IF at = 0 THEN Append(stats, NewEntry(item, question, normalized))
                  ELSE [stats EXCEPT ![at] = Merged(@, item)]

\* line 265: key=lambda x: (x['count'], len(x['keywords'])), compared as tuples
KeyLess(x, y) ==
    \/ x.count < y.count
    \/ x.count = y.count /\ Len(x.keywords) < Len(y.keywords)

\* a stable descending sort: x goes behind every entry whose key is not less than its own
RECURSIVE InsertDesc(_, _)
InsertDesc(x, sorted) ==
    IF sorted = <<>> THEN <<x>>
    ELSE IF KeyLess(Head(sorted), x) THEN <<x>> \o sorted
    ELSE <<Head(sorted)>> \o InsertDesc(x, Tail(sorted))

RECURSIVE SortInto(_, _)
SortInto(stats, sorted) ==
    IF stats = <<>> THEN sorted ELSE SortInto(Tail(stats), InsertDesc(Head(stats), sorted))

Reverse(seq) == [i \in 1..Len(seq) |-> seq[Len(seq) + 1 - i]]

\* lines 263-267: sorted(question_stats.values(), key=..., reverse=True)
SortedQuestions_AscendingReversed(stats) == SortInto(Reverse(stats), <<>>)
SortedQuestions(stats) == SortInto(stats, <<>>)

\* lines 272-279: an item of the returned list
FinalQuestion(q_data) ==
    [Requete |-> q_data.original_question,
     Suggestion |-> q_data.suggestions[1],
     MotCle |-> q_data.keywords[1],
     Score_Pertinence |-> q_data.count,
     Nb_Keywords |-> Len(q_data.keywords),
     Nb_Suggestions |-> Len(q_data.suggestions)]

\* lines 270-281
FinalQuestions(stats, target_count) ==
    LET cut == Slice(SortedQuestions(stats), target_count)
    IN  [i \in 1..Len(cut) |-> FinalQuestion(cut[i])]

NoConsArgs == [questions_data |-> <<>>, target_count |-> 0]

ConsEntered(a) ==
    /\ cons_args = a
    /\ cons_pc = "entered"
    /\ item_index = 1
    /\ question_stats = <<>>
    /\ final_questions = <<>>

ConsNotEntered ==
    /\ cons_args = NoConsArgs
    /\ cons_pc = "idle"
    /\ item_index = 0
    /\ question_stats = <<>>
    /\ final_questions = <<>>

\* lines 236-237: if not questions_data: return []
ConsReturnEmpty ==
    /\ cons_pc = "entered"
    /\ cons_args.questions_data = <<>>
    /\ cons_pc' = "done"
    /\ UNCHANGED <<cons_args, item_index, question_stats, final_questions>>

\* lines 242-260: for item in questions_data
ConsItem ==
    /\ cons_pc \in {"entered", "loop"}
    /\ item_index <= Len(cons_args.questions_data)
    /\ question_stats' = Accumulate(question_stats, cons_args.questions_data[item_index])
    /\ item_index' = item_index + 1
    /\ cons_pc' = "loop"
    /\ UNCHANGED <<cons_args, final_questions>>

\* lines 262-281: the sort, the cut to target_count and the return
ConsRank ==
    /\ cons_pc = "loop"
    /\ item_index > Len(cons_args.questions_data)
    /\ final_questions' = FinalQuestions(question_stats, cons_args.target_count)
    /\ cons_pc' = "done"
    /\ UNCHANGED <<cons_args, item_index, question_stats>>

----------------------------------------------------------------------------
(* generate_questions_from_themes *)

\* longest list of themes
MaxThemes == 3
\* largest target_count of generate_questions_from_themes
MaxGenTarget == 4

th_low == [nom |-> "low", importance |-> 1]
th_high == [nom |-> "high", importance |-> 2]
Themes == {th_low, th_high}

\* a stable descending sort by importance
RECURSIVE InsertTheme(_, _)
InsertTheme(x, sorted) ==
    IF sorted = <<>> THEN <<x>>
    ELSE IF Head(sorted).importance < x.importance THEN <<x>> \o sorted
    ELSE <<Head(sorted)>> \o InsertTheme(x, Tail(sorted))

RECURSIVE SortThemesInto(_, _)
SortThemesInto(list, sorted) ==
    IF list = <<>> THEN sorted
    ELSE SortThemesInto(Tail(list), InsertTheme(Head(list), sorted))

\* line 669: sorted(themes, key=lambda x: x.get('importance', 0), reverse=True)
SortedThemes(list) == SortThemesInto(list, <<>>)

\* line 672: max(1, target_count // len(sorted_themes))
QuestionsPerTheme_NoFloor(target_count, n) == target_count \div n
QuestionsPerTheme(target_count, n) == Max(1, target_count \div n)

\* lines 682-685: the number of questions asked of theme i (from 0) of n
ThemeQuestions_EqualShares(i, n, per_theme, remaining) == Min(per_theme, remaining)
ThemeQuestions(i, n, per_theme, remaining) ==
    IF i = n - 1 THEN remaining ELSE Min(per_theme, remaining)

\* what call_gpt4o_mini and extract_questions_from_response give for a prompt asking
\* for `asked` questions: no response, or a response with fewer, as many or more questions
Responses(asked) ==
    {[null |-> TRUE, got |-> 0]}
    \cup {[null |-> FALSE, got |-> g] : g \in {0, asked - 1, asked, asked + 1} \cap Nat}

\* lines 722-730: the questions of theme i added to all_questions
ThemeList(i, theme, count) ==
    [j \in 1..count |-> [Question |-> <<i, j>>, Theme |-> theme.nom,
                         Score_Importance |-> theme.importance]]

\* lines 720-730: the questions kept of a response
Kept_All(response, theme_questions) == IF response.null THEN 0 ELSE response.got
Kept(response, theme_questions) ==
    IF response.null THEN 0 ELSE Min(response.got, theme_questions)

\* line 730: remaining_questions -= 1 for every question kept
Remaining_LessAsked(remaining, theme_questions, kept) == remaining - theme_questions
Remaining(remaining, theme_questions, kept) == remaining - kept

\* line 677: the for loop goes on to the next theme whatever the response was
NextTheme_StopOnNull(i, n, response) == IF response.null THEN n ELSE i + 1
NextTheme(i, n, response) == i + 1

NoGenArgs == [client |-> FALSE, themes |-> <<>>, target_count |-> 0]

GenEntered(a) ==
    /\ gen_args = a
    /\ gen_pc = "entered"
    /\ sorted_themes = <<>>
    /\ theme_index = 0
    /\ remaining_questions = 0
    /\ all_questions = <<>>
    /\ requests = <<>>

GenNotEntered ==
    /\ gen_args = NoGenArgs
    /\ gen_pc = "idle"
    /\ sorted_themes = <<>>
    /\ theme_index = 0
    /\ remaining_questions = 0
    /\ all_questions = <<>>
    /\ requests = <<>>

\* lines 665-666: if not client or not themes or target_count <= 0: return []
GenReturnEmpty ==
    /\ gen_pc = "entered"
    /\ ~gen_args.client \/ gen_args.themes = <<>> \/ gen_args.target_count <= 0
    /\ gen_pc' = "done"
    /\ UNCHANGED <<gen_args, sorted_themes, theme_index, remaining_questions,
                   all_questions, requests>>

\* lines 668-675: the sort and the budget
GenSort ==
    /\ gen_pc = "entered"
    /\ gen_args.client /\ gen_args.themes # <<>> /\ gen_args.target_count > 0
    /\ sorted_themes' = SortedThemes(gen_args.themes)
    /\ remaining_questions' = gen_args.target_count
    /\ gen_pc' = "loop"
    /\ UNCHANGED <<gen_args, theme_index, all_questions, requests>>

\* lines 677-730: one iteration of the for loop over sorted_themes
GenTheme ==
    /\ gen_pc = "loop"
    /\ theme_index < Len(sorted_themes)
    /\ remaining_questions > 0
    /\ LET n == Len(sorted_themes)
           theme == sorted_themes[theme_index + 1]
           theme_questions ==
               ThemeQuestions(theme_index, n,
                              QuestionsPerTheme(gen_args.target_count, n),
                              remaining_questions)
       IN  IF theme_questions > 0
             THEN \E response \in Responses(theme_questions) :
                    LET kept == Kept(response, theme_questions) IN
                    /\ all_questions' = all_questions \o ThemeList(theme_index, theme, kept)
                    /\ remaining_questions' =
                           Remaining(remaining_questions, theme_questions, kept)
                    /\ requests' = Append(requests,
                           [index |-> theme_index, asked |-> theme_questions,
                            null |-> response.null, got |-> response.got])
                    /\ theme_index' = NextTheme(theme_index, n, response)
             ELSE /\ theme_index' = theme_index + 1
                  /\ UNCHANGED <<all_questions, remaining_questions, requests>>
    /\ UNCHANGED <<gen_args, gen_pc, sorted_themes>>

\* lines 678-679 and 732: the break or the end of the loop, and the return
GenReturn ==
    /\ gen_pc = "loop"
    /\ theme_index >= Len(sorted_themes) \/ remaining_questions <= 0
    /\ gen_pc' = "done"
    /\ UNCHANGED <<gen_args, sorted_themes, theme_index, remaining_questions,
                   all_questions, requests>>

----------------------------------------------------------------------------
(* 1_advanced_scrap.py: GoogleSuggestExtractor.__init__, select_categories, main *)

\* largest delay typed or passed, in seconds
MaxDelay == 3

\* a python dict of categories is the set of its (key, list) pairs
\* lines 48-61
default_categories ==
    {<<"question", <<"comment", "quelle", "quel", "est ce que", "combien">>>>,
     <<"localisation", <<"centre", "gare", "quartier">>>>,
     <<"proximite", <<"proche", "pres de", "a cote">>>>,
     <<"economy", <<"pas cher", "economique", "abordable">>>>,
     <<"midscale", <<"3 etoiles", "moyen de gamme", "standard">>>>,
     <<"luxury", <<"luxe", "haut de gamme", "premium">>>>,
     <<"promotion", <<"promo", "bon plan", "reduction">>>>,
     <<"cible", <<"famille", "business", "professionnel">>>>,
     <<"service", <<"spa", "restaurant", "parking">>>>,
     <<"renseignement", <<"adresse", "avis", "telephone">>>>,
     <<"style", <<"moderne", "charme", "contemporain">>>>,
     <<"evenement", <<"ce soir", "derniere minute", "saint valentin">>>>}

\* lines 70-73
suffix_categories ==
    <<"localisation", "proximite", "economy", "midscale", "luxury", "promotion",
      "cible", "service", "renseignement", "style", "evenement">>

HasKey(dict, key) == \E p \in dict : p[1] = key
\* dict[key]
Lookup(dict, key) == (CHOOSE p \in dict : p[1] = key)[2]
\* dict.get(key, default)
Get(dict, key, default) == IF HasKey(dict, key) THEN Lookup(dict, key) ELSE default

\* the categories argument: None or a dict
NoDict == [none |-> TRUE, dict |-> {}]
Dict(d) == [none |-> FALSE, dict |-> d]

\* lines 63-64: if categories is None: categories = default_categories
Categories(categories) ==
    IF categories.none THEN default_categories ELSE categories.dict

\* lines 75-79: the suffix categories that are keys of the categories
Suffixes(categories) ==
    {p \in categories : \E i \in 1..Len(suffix_categories) : suffix_categories[i] = p[1]}

\* lines 38-92: the attributes after __init__; line 82 assigns delay_between_queries
\* again after line 45
Construct(a) ==
    LET categories == Categories(a.categories) IN
    [keyword |-> a.keyword,
     max_suggests_l1 |-> a.max_suggests_l1,
     level2_enabled |-> a.level2_enabled,
     use_delay |-> a.use_delay,
     delay_between_queries |-> LET line45 == IF a.use_delay THEN a.delay ELSE 0 IN 1,
     prefixes |-> Get(categories, "question", Lookup(default_categories, "question")),
     suffixes |-> Suffixes(categories)]

\* the wait of lines 262-263 (and 180-181) between two queries
DelayApplied(e) == IF e.use_delay THEN e.delay_between_queries ELSE 0

NoExtractor ==
    [keyword |-> "", max_suggests_l1 |-> 0, level2_enabled |-> FALSE, use_delay |-> FALSE,
     delay_between_queries |-> 0, prefixes |-> <<>>, suffixes |-> {}]

\* the file 0_1_dictionnary/sub_categories.json when it loads: its categories in file order
file_categories ==
    <<<<"question", <<"pourquoi">>>>, <<"style", <<"design">>>>, <<"service", <<"piscine">>>>>>

AsDict(pairs) == {pairs[i] : i \in 1..Len(pairs)}

\* lines 468-498; the answer typed is nothing, a list of numbers, or not a list of numbers
select_categories(file, selection) ==
    IF file \in {"missing", "invalid_json"} THEN {}
    ELSE IF selection.kind = "empty" THEN AsDict(file_categories)
    ELSE IF selection.kind = "numbers"
        THEN {file_categories[n] : n \in {m \in selection.numbers : 0 <= m - 1 /\ m - 1 < Len(file_categories)}}
    ELSE AsDict(file_categories)

Selections ==
    {[kind |-> "empty", numbers |-> {}], [kind |-> "invalid", numbers |-> {}]}
    \cup {[kind |-> "numbers", numbers |-> ns] : ns \in {{1}, {2, 3}, {0, 4}}}

NoMainIn ==
    [notebook |-> NoDict, file |-> "ok", selection |-> [kind |-> "empty", numbers |-> {}],
     level2_enabled |-> FALSE, use_delay |-> FALSE, delay |-> 0]

MainNotEntered ==
    /\ main_in = NoMainIn
    /\ main_pc = "idle"
    /\ selected_categories = NoDict
    /\ extractor = NoExtractor

\* lines 505-510: the categories of the notebook, or those of select_categories
MainSelect ==
    /\ main_pc = "entered"
    /\ selected_categories' =
           IF ~main_in.notebook.none THEN main_in.notebook
           ELSE Dict(select_categories(main_in.file, main_in.selection))
    /\ main_pc' = "inputs"
    /\ UNCHANGED <<main_in, extractor>>

\* lines 512-567: the answers typed (delay stays 1.0 when no delay is wanted) and the
\* construction of the extractor
MainConstruct ==
    /\ main_pc = "inputs"
    /\ extractor' = Construct([keyword |-> "K", max_suggests_l1 |-> 10,
                               level2_enabled |-> main_in.level2_enabled,
                               use_delay |-> main_in.use_delay,
                               delay |-> IF main_in.use_delay THEN main_in.delay ELSE 1,
                               categories |-> selected_categories])
    /\ main_pc' = "built"
    /\ UNCHANGED <<main_in, selected_categories>>

\* a call of the constructor alone, with any arguments
ConstructorArgs ==
    [keyword : {"K"}, max_suggests_l1 : {10}, level2_enabled : BOOLEAN, use_delay : BOOLEAN,
     delay : 0..MaxDelay,
     categories : {NoDict, Dict({}), Dict({<<"style", <<"design">>>>}),
                   Dict({<<"question", <<"pourquoi">>>>, <<"service", <<"piscine">>>>})}]

NewExtractor ==
    /\ main_pc = "constructor"
    /\ extractor' = Construct(main_in)
    /\ main_pc' = "built"
    /\ UNCHANGED <<main_in, selected_categories>>

----------------------------------------------------------------------------
(* GoogleSuggestExtractor._get_suggestions_async *)

\* longest list in a response body
MaxBody == 2
\* largest max_suggests_l1
MaxL1 == 2
\* longest response to a query of an extraction
MaxAnswer == 1

\* line 124
max_retries == 3

\* what one attempt meets: status 200 and a body that is read, decoded and parsed; status
\* 200 and then an exception or the timeout (body not read in time, not JSON, no element
\* 1); another status; an exception of session.get; the timeout of 5 seconds
AttemptOutcomes ==
    {[kind |-> "ok", status |-> 200, body |-> b] : b \in SeqsUpTo({"x", "y"}, MaxBody)}
    \cup {[kind |-> "error_after_200", status |-> 200, body |-> <<>>],
          [kind |-> "status", status |-> 500, body |-> <<>>],
          [kind |-> "exception", status |-> 0, body |-> <<>>],
          [kind |-> "timeout", status |-> 0, body |-> <<>>]}

\* lines 143-147: the failures that raise inside the try block
Raises(outcome) == outcome.kind \in {"error_after_200", "exception", "timeout"}

\* lines 145-146: await asyncio.sleep(1) when another attempt follows
WaitBeforeRetry(n) ==
    IF n < max_retries - 1
        THEN <<[event |-> "sleep", n |-> n, status |-> 0, body |-> <<>>]>>
        ELSE <<>>

\* lines 129-140: the attempt returns when the status is 200 and nothing raises
Returns_AnyStatus(outcome) == outcome.kind \in {"ok", "status"}
Returns(outcome) == outcome.kind = "ok"

\* the log entries of one attempt
AttemptEvents(n, outcome) ==
    <<[event |-> outcome.kind, n |-> n, status |-> outcome.status, body |-> outcome.body]>>
    \o (IF Raises(outcome) THEN WaitBeforeRetry(n) ELSE <<>>)

AsyncNotEntered ==
    /\ async_pc = "idle"
    /\ attempt = 0
    /\ async_events = <<>>
    /\ async_return = <<>>

AsyncEntered ==
    /\ async_pc = "loop"
    /\ attempt = 0
    /\ async_events = <<>>
    /\ async_return = <<>>

\* lines 125-147: one iteration of for attempt in range(max_retries)
AsyncAttempt ==
    /\ async_pc = "loop"
    /\ attempt < max_retries
    /\ \E outcome \in AttemptOutcomes :
         /\ async_events' = async_events \o AttemptEvents(attempt, outcome)
         /\ IF Returns(outcome)
              THEN /\ async_return' = Slice(outcome.body, extractor.max_suggests_l1)
                   /\ async_pc' = "returned"
                   /\ attempt' = attempt
              ELSE /\ attempt' = attempt + 1
                   /\ UNCHANGED <<async_return, async_pc>>

\* line 148: return [] after the loop
AsyncReturnEmpty ==
    /\ async_pc = "loop"
    /\ attempt >= max_retries
    /\ async_return' = <<>>
    /\ async_pc' = "returned"
    /\ UNCHANGED <<attempt, async_events>>

----------------------------------------------------------------------------
(* GoogleSuggestExtractor.extract_all *)

\* lines 155-158, 205-236, 420-426: the queries made for a text: the text itself, with
\* each prefix, and with each suffix of each suffix category
RECURSIVE SuffixQueries(_, _)
SuffixQueries(text, suffixes) ==
    IF suffixes = {} THEN {}
    ELSE LET p == CHOOSE q \in suffixes : TRUE IN
         {<<text, p[2][i]>> : i \in 1..Len(p[2])} \cup SuffixQueries(text, suffixes \ {p})

Queries(e, text) ==
    {<<text>>} \cup {<<e.prefixes[i], text>> : i \in 1..Len(e.prefixes)}
               \cup SuffixQueries(text, e.suffixes)

\* lines 195-199: total_queries
TotalQueries(e) == Cardinality(Queries(e, e.keyword))

\* what _get_suggestions_async and _get_suggestions return for a query: the first
\* max_suggests_l1 elements of a response, or [] after a failure
QueryResults(e) ==
    {<<>>} \cup {Slice(b, e.max_suggests_l1) : b \in SeqsUpTo({"x", "y"}, MaxAnswer)}

Elements(seq) == {seq[i] : i \in 1..Len(seq)}

NoProgress ==
    [level1_started |-> FALSE, level1_completed |-> FALSE,
     level2_started |-> FALSE, level2_completed |-> FALSE]

NoResults == [suggests_level1 |-> {}, suggests_level2 |-> {}]

NoReturn == [error |-> FALSE, progress |-> NoProgress, level1 |-> {}, level2 |-> {}]

\* lines 314-325
ErrorResults(prog, res) ==
    [error |-> TRUE, progress |-> prog, level1 |-> res.suggests_level1,
     level2 |-> res.suggests_level2]

\* lines 327-366: the level-2 list of a level-1 suggestion without that suggestion
FinalResults(prog, res) ==
    [error |-> FALSE, progress |-> prog, level1 |-> res.suggests_level1,
     level2 |-> {<<p[1], p[2] \ {p[1]}>> : p \in {q \in res.suggests_level2 :
                                                    q[1] \in res.suggests_level1}}]

\* lines 299-303: what follows the level-1 collection
AfterCollectLevel1_NoEmptyTest(level1, e) == IF e.level2_enabled THEN "level2" ELSE "final"
AfterCollectLevel1(level1, e) ==
    IF level1 = {} THEN "error" ELSE IF e.level2_enabled THEN "level2" ELSE "final"

ExtractNotEntered ==
    /\ ext_pc = "idle"
    /\ progress = NoProgress
    /\ query_index = 0
    /\ temp_results = <<>>
    /\ results = NoResults
    /\ processed_queries = {}
    /\ extract_return = NoReturn

ExtractEntered ==
    /\ ext_pc = "entered"
    /\ progress = NoProgress
    /\ query_index = 0
    /\ temp_results = <<>>
    /\ results = NoResults
    /\ processed_queries = {}
    /\ extract_return = NoReturn

\* lines 293-296: progress["level1_started"] = True and the call of the level-1 collection
ExtractStart ==
    /\ ext_pc = "entered"
    /\ progress' = [progress EXCEPT !.level1_started = TRUE]
    /\ ext_pc' = "level1"
    /\ UNCHANGED <<query_index, temp_results, results, processed_queries, extract_return>>

\* lines 206-236: one query of the level-1 collection
Level1Query ==
    /\ ext_pc = "level1"
    /\ query_index < TotalQueries(extractor)
    /\ \E r \in QueryResults(extractor) : temp_results' = temp_results \o r
    /\ query_index' = query_index + 1
    /\ UNCHANGED <<ext_pc, progress, results, processed_queries, extract_return>>

\* lines 308-310: an exception raised inside a collection (asyncio.run, the aiohttp
\* session, the progress bar) is caught and the error results are returned
CollectionRaises ==
    /\ ext_pc \in {"level1", "level2"}
    /\ extract_return' = ErrorResults(progress, results)
    /\ ext_pc' = "returned"
    /\ UNCHANGED <<progress, query_index, temp_results, results, processed_queries>>

\* lines 238, 297-312: the level-1 set, progress["level1_completed"] = True, and what
\* follows: the ValueError of an empty set, the start of level 2, or the final results
Level1Complete ==
    /\ ext_pc = "level1"
    /\ query_index >= TotalQueries(extractor)
    /\ LET level1 == Elements(temp_results)
           res == [results EXCEPT !.suggests_level1 = level1]
           completed == [progress EXCEPT !.level1_completed = TRUE]
           after == AfterCollectLevel1(level1, extractor)
       IN  /\ results' = res
           /\ CASE after = "error" ->
                     /\ progress' = completed
                     /\ extract_return' = ErrorResults(completed, res)
                     /\ ext_pc' = "returned"
                [] after = "level2" ->
                     /\ progress' = [completed EXCEPT !.level2_started = TRUE]
                     /\ ext_pc' = "level2"
                     /\ UNCHANGED extract_return
                [] OTHER ->
                     /\ progress' = completed
                     /\ extract_return' = FinalResults(completed, res)
                     /\ ext_pc' = "returned"
    /\ UNCHANGED <<query_index, temp_results, processed_queries>>

\* lines 248-267: one iteration of the for loop of collect_level2_suggestions, over the
\* set suggests_level1 in any order
Level2Parent ==
    /\ ext_pc = "level2"
    /\ \E suggestion \in results.suggests_level1 :
         /\ ~HasKey(results.suggests_level2, suggestion)
         /\ LET queries == Queries(extractor, suggestion) \ processed_queries IN
            /\ processed_queries' = processed_queries \cup queries
            /\ \E answers \in [queries -> QueryResults(extractor)] :
                 LET level2_suggests == UNION {Elements(answers[q]) : q \in queries} IN
                 results' = [results EXCEPT !.suggests_level2 =
                                @ \cup {<<suggestion, level2_suggests \ {suggestion}>>}]
    /\ UNCHANGED <<ext_pc, progress, query_index, temp_results, extract_return>>

\* lines 306, 312: progress["level2_completed"] = True and the final results
Level2Complete ==
    /\ ext_pc = "level2"
    /\ \A suggestion \in results.suggests_level1 : HasKey(results.suggests_level2, suggestion)
    /\ progress' = [progress EXCEPT !.level2_completed = TRUE]
    /\ extract_return' = FinalResults(progress', results)
    /\ ext_pc' = "returned"
    /\ UNCHANGED <<query_index, temp_results, results, processed_queries>>

ScrapNotEntered == MainNotEntered /\ AsyncNotEntered /\ ExtractNotEntered

----------------------------------------------------------------------------
(* Specifications *)

InitHandler(texts) ==
    /\ service_texts = texts
    /\ keywords = <<>>
    /\ kw_index = 0
    /\ run_all_suggestions = <<>>
    /\ run_got_suggestion = FALSE
    /\ shown = {}
    /\ session = NoSession
    /\ UINotEntered

InitRun(texts) ==
    /\ InitHandler(texts)
    /\ ConsNotEntered
    /\ GenNotEntered
    /\ ScrapNotEntered

\* one call of get_google_suggestions_multilevel, with any arguments
Init ==
    /\ \E a \in ArgSets : InitCollect(Entered(a))
    /\ InitRun(Texts)
    /\ keywords_input = <<>>
    /\ sliders = [level1_count |-> 0, level2_count |-> 0, level3_count |-> 0]
    /\ run_pc = "function"

Next ==
    \/ Level1 /\ UNCHANGED <<runVars, pureVars>>
    \/ Level2Skip /\ UNCHANGED <<runVars, pureVars>>
    \/ Level2 /\ UNCHANGED <<runVars, pureVars>>
    \/ Level3 /\ UNCHANGED <<runVars, pureVars>>

Spec == Init /\ [][Next]_vars

\* the same with one limit for the three levels, and a service that answers with four
\* different suggestions
UniformArgSets ==
    {a \in ArgSets : a.level2_count = a.level1_count /\ a.level3_count = a.level1_count}

InitOrder ==
    /\ \E a \in UniformArgSets : InitCollect(Entered(a))
    /\ InitRun(OrderTexts)
    /\ keywords_input = <<>>
    /\ sliders = [level1_count |-> 0, level2_count |-> 0, level3_count |-> 0]
    /\ run_pc = "function"

SpecOrder == InitOrder /\ [][Next]_vars

\* one click on the analysis button, with any lines and slider values
InitRunSpec ==
    /\ InitCollect(NotEntered)
    /\ InitRun(RunTexts)
    /\ keywords_input \in SeqsUpTo(Lines, MaxLines)
    /\ sliders \in SliderSets
    /\ run_pc = "idle"

NextRun ==
    \/ ClickAnalyze /\ UNCHANGED <<pureVars, uiVars>>
    \/ Level1 /\ UNCHANGED <<runVars, pureVars>>
    \/ Level2Skip /\ UNCHANGED <<runVars, pureVars>>
    \/ Level2 /\ UNCHANGED <<runVars, pureVars>>
    \/ Level3 /\ UNCHANGED <<runVars, pureVars>>
    \/ NextKeyword /\ UNCHANGED <<pureVars, uiVars>>
    \/ AfterCollection /\ UNCHANGED <<pureVars, uiVars>>

SpecRun == InitRunSpec /\ [][NextRun]_vars

\* the collector and the handler at rest, while one of the functions below is called alone
AppIdle ==
    /\ InitCollect(NotEntered)
    /\ InitHandler(Texts)
    /\ keywords_input = <<>>
    /\ sliders = [level1_count |-> 0, level2_count |-> 0, level3_count |-> 0]
    /\ run_pc = "function"

appVars == <<collectVars, runVars, run_got_suggestion>>

\* the items of questions_data: three question texts, two of them with one normalized
\* form, from three sources
Candidates ==
    {Item(q, src[1], src[2]) : q \in {q_b, q_Bx, q_c},
                               src \in {<<"s1", "k1">>, <<"s2", "k1">>, <<"s1", "k2">>}}

\* one call of consolidate_and_deduplicate, with any list of them and any target_count
InitConsolidate ==
    /\ AppIdle
    /\ GenNotEntered
    /\ ScrapNotEntered
    /\ \E qd \in SeqsUpTo(Candidates, MaxCands), tc \in (-1)..MaxTarget :
         ConsEntered([questions_data |-> qd, target_count |-> tc])

NextConsolidate ==
    \/ ConsReturnEmpty /\ UNCHANGED <<appVars, genVars, scrapVars>>
    \/ ConsItem /\ UNCHANGED <<appVars, genVars, scrapVars>>
    \/ ConsRank /\ UNCHANGED <<appVars, genVars, scrapVars>>

SpecConsolidate == InitConsolidate /\ [][NextConsolidate]_vars

\* one call with no item or with one item of any question text
InitNormalize ==
    /\ AppIdle
    /\ GenNotEntered
    /\ ScrapNotEntered
    /\ \E qd \in SeqsUpTo({Item(t, "s1", "k1") : t \in SeqsUpTo(QChars, MaxText)}, 1) :
         ConsEntered([questions_data |-> qd, target_count |-> 1])

SpecNormalize == InitNormalize /\ [][NextConsolidate]_vars

\* one call with no item or with two items of any question texts, and room for both
PairCandidates == {Item(t, "s1", "k1") : t \in SeqsUpTo(QChars, MaxPairText)}

InitPair ==
    /\ AppIdle
    /\ GenNotEntered
    /\ ScrapNotEntered
    /\ \E qd \in {<<>>} \cup [1..2 -> PairCandidates] :
         ConsEntered([questions_data |-> qd, target_count |-> 2])

SpecPair == InitPair /\ [][NextConsolidate]_vars

\* one call with up to MaxRank items of three different questions from two keywords
RankCandidates == {Item(q, "s1", k) : q \in {q_b, q_c, q_d}, k \in {"k1", "k2"}}

InitRank ==
    /\ AppIdle
    /\ GenNotEntered
    /\ ScrapNotEntered
    /\ \E qd \in SeqsUpTo(RankCandidates, MaxRank), tc \in {MaxTarget, MaxRank} :
         ConsEntered([questions_data |-> qd, target_count |-> tc])

SpecRank == InitRank /\ [][NextConsolidate]_vars

\* one call of generate_questions_from_themes, with any themes and any target_count
InitGenerate ==
    /\ AppIdle
    /\ ConsNotEntered
    /\ ScrapNotEntered
    /\ \E cl \in BOOLEAN, th \in SeqsUpTo(Themes, MaxThemes), tc \in (-1)..MaxGenTarget :
         GenEntered([client |-> cl, themes |-> th, target_count |-> tc])

NextGenerate ==
    \/ GenReturnEmpty /\ UNCHANGED <<appVars, consVars, scrapVars>>
    \/ GenSort /\ UNCHANGED <<appVars, consVars, scrapVars>>
    \/ GenTheme /\ UNCHANGED <<appVars, consVars, scrapVars>>
    \/ GenReturn /\ UNCHANGED <<appVars, consVars, scrapVars>>

SpecGenerate == InitGenerate /\ [][NextGenerate]_vars

----------------------------------------------------------------------------
(* Properties of get_google_suggestions_multilevel *)

Indices == DOMAIN all_suggestions
AtLevel(n) == {i \in Indices : all_suggestions[i].Niveau = n}
ChildrenOf(n, parent) == {i \in AtLevel(n) : all_suggestions[i].Parent = parent}
KeyAt(i) == LowerTrim(all_suggestions[i].Suggestion)
WithKey(k) == {i \in Indices : KeyAt(i) = k}
SeedKey == LowerTrim(args.keyword)
Returned(k) == first_return[k] # NoCall
\* the records obtained from one call: those of its level with its query as parent
FromCall(c) == ChildrenOf(c.niveau, c.query)
CallsOf(n) == {i \in DOMAIN calls : calls[i].niveau = n}
Pair(c) == <<c.niveau, c.query>>
TextsAt(n) ==
    LET idx == AtLevel(n)
        Nth(m) == CHOOSE i \in idx : Cardinality({j \in idx : j < i}) = m - 1
    IN  [m \in 1..Cardinality(idx) |-> <<n + 1, all_suggestions[Nth(m)].Suggestion>>]

\* C1: the records of the collected list, the level-0 seed record included, have
\* pairwise different texts after lowercasing and trimming, at every point of the
\* collection and so in the returned list.
C1_NoDuplicateText ==
    \A i, j \in Indices : i # j => KeyAt(i) # KeyAt(j)

\* C1 witness: a finished collection in which a call echoed the seed, a call repeated a
\* text of an earlier call, a call failed, and records were still collected.
C1_Witness ==
    /\ pc = "done"
    /\ Returned(SeedKey)
    /\ "again" \in observed
    /\ \E n \in DOMAIN calls : ~calls[n].ok
    /\ AtLevel(2) # {}

\* C2: with enable_level2 false there is no level-2 or level-3 record and no level-2 or
\* level-3 call, whatever enable_level3 and level3_count are, and nothing is raised.
C2_Level2DisabledNoDeeper ==
    ~args.enable_level2 =>
        /\ \A i \in Indices : all_suggestions[i].Niveau <= 1
        /\ \A n \in DOMAIN calls : calls[n].niveau = 1
        /\ pc \in {"level1", "done"}

\* C2 witness: level 3 requested (flag and count) without level 2, and the collection
\* returned with level-1 records.
C2_Witness ==
    /\ pc = "done"
    /\ ~args.enable_level2 /\ args.enable_level3 /\ args.level3_count > 0
    /\ args.level2_count > 0
    /\ AtLevel(1) # {}

\* C3: a failed call contributes no record, nothing is raised, every text returned by a
\* call that succeeded is in the list, and at the return the seed record is there and
\* every level-1 (level-2) record has had its call when level 2 (level 3) is enabled.
C3_FailureIsolated ==
    /\ pc # "raised"
    /\ \A n \in DOMAIN calls : ~calls[n].ok => FromCall(calls[n]) = {}
    /\ \A k \in Keys : Returned(k) => WithKey(k) # {}
    /\ pc = "done" =>
        /\ all_suggestions[1] = Record(args.keyword, 0, args.keyword, None)
        /\ args.enable_level2 =>
             \A i \in AtLevel(1) : \E n \in CallsOf(2) :
                 calls[n].query = all_suggestions[i].Suggestion
        /\ (args.enable_level2 /\ args.enable_level3) =>
             \A i \in AtLevel(2) : \E n \in CallsOf(3) :
                 calls[n].query = all_suggestions[i].Suggestion

\* C3 witness: the call of one level-1 record failed, the call of a later level-1 record
\* succeeded and gave a level-2 record, and the collection returned.
C3_Witness ==
    /\ pc = "done"
    /\ \E n, m \in CallsOf(2) :
         /\ n < m
         /\ ~calls[n].ok
         /\ calls[m].ok
         /\ FromCall(calls[m]) # {}

\* C4: the list is a tree rooted at the seed: exactly one level-0 record (the seed, parent
\* None), level-1 records have the seed as parent, level-2 (level-3) records have the
\* exact text of a level-1 (level-2) record of the list as parent.
C4_WellFormedTree ==
    /\ AtLevel(0) = {1}
    /\ all_suggestions[1] = Record(args.keyword, 0, args.keyword, None)
    /\ \A i \in Indices : all_suggestions[i].Niveau \in 0..3
    /\ \A i \in AtLevel(1) : all_suggestions[i].Parent = args.keyword
    /\ \A n \in {2, 3} : \A i \in AtLevel(n) :
         \E j \in AtLevel(n - 1) : all_suggestions[j].Suggestion = all_suggestions[i].Parent

\* C4 witness: a returned list with records at the levels 1, 2 and 3.
C4_Witness ==
    /\ pc = "done"
    /\ AtLevel(1) # {} /\ AtLevel(2) # {} /\ AtLevel(3) # {}

\* C5: at most level1_count level-1 records, at most level2_count level-2 children per
\* level-1 record and at most level3_count level-3 children per level-2 record.
C5_CappedPerCall ==
    /\ Cardinality(AtLevel(1)) <= args.level1_count
    /\ \A i \in AtLevel(1) :
         Cardinality(ChildrenOf(2, all_suggestions[i].Suggestion)) <= args.level2_count
    /\ \A i \in AtLevel(2) :
         Cardinality(ChildrenOf(3, all_suggestions[i].Suggestion)) <= args.level3_count

\* C5 witness: the service answered with more than the limit asked, and a call filled
\* its limit.
C5_Witness ==
    /\ pc = "done"
    /\ "cut" \in observed
    /\ args.level1_count > 0
    /\ Cardinality(AtLevel(1)) = args.level1_count
    /\ AtLevel(2) # {}

\* C6: at the return the calls are, in order: one for the seed, one per level-1 record
\* when level 2 is enabled, one per level-2 record when levels 2 and 3 are enabled; and
\* never more than 1 + |level-1 records| + |level-2 records|.
C6_OneCallPerNode ==
    /\ Len(calls) <= 1 + Cardinality(AtLevel(1)) + Cardinality(AtLevel(2))
    /\ pc = "done" =>
         [n \in DOMAIN calls |-> Pair(calls[n])] =
             <<<<1, args.keyword>>>>
             \o (IF args.enable_level2 THEN TextsAt(1) ELSE <<>>)
             \o (IF args.enable_level2 /\ args.enable_level3 THEN TextsAt(2) ELSE <<>>)

\* C6 witness: a return where a repeated text was dropped, fewer level-1 records exist
\* than level1_count asked for, level-3 records exist, and the calls number one per
\* record of the levels 0 to 2.
C6_Witness ==
    /\ pc = "done"
    /\ "again" \in observed
    /\ AtLevel(3) # {}
    /\ args.level1_count > Cardinality(AtLevel(1))
    /\ Len(calls) = Cardinality(Indices \ AtLevel(3))

\* C7 as stated: every text returned by a call is recorded exactly once, with the level
\* and the parent of the first call that returned it.
C7_FirstCallWins_Original ==
    \A k \in Keys : Returned(k) =>
        /\ Cardinality(WithKey(k)) = 1
        /\ \A i \in WithKey(k) :
             /\ all_suggestions[i].Niveau = first_return[k].niveau
             /\ all_suggestions[i].Parent = first_return[k].query

\* C7 amended: every text returned by a call is recorded exactly once; with the level and
\* the parent of the first call that returned it, unless it equals the seed after
\* lowercasing and trimming: then its one record is the level-0 seed record.
C7_FirstCallWins ==
    \A k \in Keys : Returned(k) =>
        /\ Cardinality(WithKey(k)) = 1
        /\ \A i \in WithKey(k) :
             IF k = SeedKey
                 THEN all_suggestions[i] = Record(args.keyword, 0, args.keyword, None)
                 ELSE /\ all_suggestions[i].Niveau = first_return[k].niveau
                      /\ all_suggestions[i].Parent = first_return[k].query

\* C7 witness: a level-1 text was returned again by a later call, the seed was echoed,
\* and the collection went on to the levels 2 and 3.
C7_Witness ==
    /\ pc = "done"
    /\ "again" \in observed
    /\ Returned(SeedKey)
    /\ \E n \in CallsOf(3) : calls[n].ok
    /\ AtLevel(2) # {}

\* C8: the records are listed level by level; within a level in the order of their
\* parents; for one parent in the order in which the call returned them.
C8_ListedLevelByLevel ==
    \A i, j \in Indices : i < j =>
        /\ all_suggestions[i].Niveau <= all_suggestions[j].Niveau
        /\ (all_suggestions[i].Niveau = all_suggestions[j].Niveau /\ all_suggestions[i].Niveau >= 2) =>
             \E p, q \in Indices :
                /\ p <= q
                /\ all_suggestions[p].Suggestion = all_suggestions[i].Parent
                /\ all_suggestions[q].Suggestion = all_suggestions[j].Parent
        /\ (all_suggestions[i].Niveau = all_suggestions[j].Niveau
                /\ all_suggestions[i].Parent = all_suggestions[j].Parent) =>
             first_return[KeyAt(i)].rank < first_return[KeyAt(j)].rank

\* C8 witness: a returned list with two level-1 records (one parent, two children) and
\* two level-2 records of different parents.
C8_Witness ==
    /\ pc = "done"
    /\ Cardinality(AtLevel(1)) >= 2
    /\ \E i, j \in AtLevel(2) : all_suggestions[i].Parent # all_suggestions[j].Parent

----------------------------------------------------------------------------
(* Properties of the analysis run *)

Stored == session.analysis_results # NoneValue

\* C9: no two records of the stored all_suggestions list with the same 'Mot-cle' have the
\* same lowercased, trimmed 'Suggestion Google' text, whatever the input lines.
C9_UniquePerSeedInRun ==
    Stored =>
        LET l == session.analysis_results.all_suggestions
        IN  \A i, j \in DOMAIN l :
                (i # j /\ l[i].MotCle = l[j].MotCle) =>
                    LowerTrim(l[i].Suggestion) # LowerTrim(l[j].Suggestion)

\* C10: a run in which every call failed or returned nothing ends with the 'no
\* suggestion found' error shown and nothing stored; and that error is shown in no
\* other run.
C10_NoDataSurfaced ==
    (run_pc = "end" /\ keywords # <<>>) =>
        /\ ~run_got_suggestion => ("no_suggestion" \in shown /\ ~Stored)
        /\ "no_suggestion" \in shown => ~run_got_suggestion

\* main of 1_advanced_scrap.py up to the construction of the extractor
InitMain ==
    /\ AppIdle
    /\ ConsNotEntered
    /\ GenNotEntered
    /\ AsyncNotEntered
    /\ ExtractNotEntered
    /\ main_in \in [notebook : {NoDict, Dict({<<"style", <<"design">>>>})},
                     file : {"ok", "missing", "invalid_json"},
                     selection : Selections,
                     level2_enabled : BOOLEAN, use_delay : BOOLEAN, delay : 0..MaxDelay]
    /\ main_pc = "entered"
    /\ selected_categories = NoDict
    /\ extractor = NoExtractor

restVars == <<appVars, consVars, genVars>>

NextMain ==
    \/ MainSelect /\ UNCHANGED <<restVars, asyncVars, extractVars>>
    \/ MainConstruct /\ UNCHANGED <<restVars, asyncVars, extractVars>>

SpecMain == InitMain /\ [][NextMain]_vars

\* one call of the constructor
InitConstruct ==
    /\ AppIdle
    /\ ConsNotEntered
    /\ GenNotEntered
    /\ AsyncNotEntered
    /\ ExtractNotEntered
    /\ main_in \in ConstructorArgs
    /\ main_pc = "constructor"
    /\ selected_categories = NoDict
    /\ extractor = NoExtractor

NextConstruct == NewExtractor /\ UNCHANGED <<restVars, asyncVars, extractVars>>

SpecConstruct == InitConstruct /\ [][NextConstruct]_vars

\* one call of _get_suggestions_async on an extractor with any limit
InitAsync ==
    /\ AppIdle
    /\ ConsNotEntered
    /\ GenNotEntered
    /\ ExtractNotEntered
    /\ main_in \in [keyword : {"K"}, max_suggests_l1 : 1..MaxL1, level2_enabled : {FALSE},
                     use_delay : BOOLEAN, delay : {1}, categories : {NoDict}]
    /\ main_pc = "built"
    /\ selected_categories = NoDict
    /\ extractor = Construct(main_in)
    /\ AsyncEntered

NextAsync ==
    \/ AsyncAttempt /\ UNCHANGED <<restVars, mainVars, extractVars>>
    \/ AsyncReturnEmpty /\ UNCHANGED <<restVars, mainVars, extractVars>>

SpecAsync == InitAsync /\ [][NextAsync]_vars

\* one call of extract_all on an extractor with one prefix and at most one suffix
InitExtract ==
    /\ AppIdle
    /\ ConsNotEntered
    /\ GenNotEntered
    /\ AsyncNotEntered
    /\ main_in \in [keyword : {"K"}, max_suggests_l1 : 1..MaxL1, level2_enabled : BOOLEAN,
                     use_delay : {FALSE}, delay : {1},
                     categories : {Dict({<<"question", <<"pourquoi">>>>}),
                                   Dict({<<"question", <<"pourquoi">>>>,
                                         <<"service", <<"piscine">>>>})}]
    /\ main_pc = "built"
    /\ selected_categories = NoDict
    /\ extractor = Construct(main_in)
    /\ ExtractEntered

NextExtract ==
    \/ ExtractStart /\ UNCHANGED <<restVars, mainVars, asyncVars>>
    \/ Level1Query /\ UNCHANGED <<restVars, mainVars, asyncVars>>
    \/ CollectionRaises /\ UNCHANGED <<restVars, mainVars, asyncVars>>
    \/ Level1Complete /\ UNCHANGED <<restVars, mainVars, asyncVars>>
    \/ Level2Parent /\ UNCHANGED <<restVars, mainVars, asyncVars>>
    \/ Level2Complete /\ UNCHANGED <<restVars, mainVars, asyncVars>>

SpecExtract == InitExtract /\ [][NextExtract]_vars

\* the page from its first display, under any sequence of clicks
InitSession ==
    /\ InitCollect(NotEntered)
    /\ InitRun(Texts)
    /\ keywords_input = <<>>
    /\ sliders = [level1_count |-> 0, level2_count |-> 0, level3_count |-> 0]
    /\ run_pc = "page"

NextSession ==
    \/ UIEvent
    \/ UISidebar
    \/ UIAnalyzeStart
    \/ UIAnalyzeRaises
    \/ UIAnalyzeStores
    \/ UIClear
    \/ UINoButton
    \/ UIThemeSelection
    \/ UIGenerateRaises
    \/ UIGenerateDone

SpecSession == InitSession /\ [][NextSession]_vars

----------------------------------------------------------------------------
(* consolidate_and_deduplicate: properties *)

\* the normalization as the claim words it: lowercase, remove every character that is
\* neither alphanumeric nor whitespace, trim
IsAlnum(c) == c \in {"a", "b", "c", "d", "k", "B", "K"}
AlnumNormalized(text) ==
    LStrip(RStrip(SelectSeq([i \in 1..Len(text) |-> LowerChar(text[i])],
                            LAMBDA c : IsAlnum(c) \/ c = " ")))

ConsDone == cons_pc = "done" /\ cons_args.questions_data # <<>>

\* C11: two candidates are merged into one output item if and only if their texts are
\* equal after lowercasing, removing every character that is neither alphanumeric nor
\* whitespace, and trimming. (Stated for a call with two candidates and target_count 2.)
C11_MergedIffNormalizedEqual ==
    (ConsDone /\ Len(cons_args.questions_data) = 2)
        => ((Len(final_questions) = 1)
              <=> (AlnumNormalized(cons_args.questions_data[1].Question)
                     = AlnumNormalized(cons_args.questions_data[2].Question)))

\* C12: the key the code computed for a question is left unchanged by the normalization
\* of line 245 applied to it again.
C12_NormalizationIdempotent ==
    \A i \in 1..Len(question_stats) :
        NormalizeQuestion(question_stats[i].normalized) = question_stats[i].normalized

\* C12 witness: a question of three characters that the normalization changed, with a key
\* that is not empty
C12_Witness ==
    /\ ConsDone
    /\ Len(cons_args.questions_data[1].Question) = 3
    /\ question_stats[1].normalized # <<>>
    /\ question_stats[1].normalized # cons_args.questions_data[1].Question

\* the candidates by number, their keys, and what the merged candidates of a key add up to
CandIndices == 1..Len(cons_args.questions_data)
CandKey(i) == NormalizeQuestion(Strip(cons_args.questions_data[i].Question))
DistinctKeys == {CandKey(i) : i \in CandIndices}
MergedInto(k) == {i \in CandIndices : CandKey(i) = k}
FirstSeen(k) == CHOOSE i \in MergedInto(k) : \A j \in MergedInto(k) : i <= j
\* the key of a returned item, from its displayed text
FinalKey(f) == NormalizeQuestion(f.Requete)
FinalIndices == 1..Len(final_questions)

RECURSIVE SumSeq(_)
SumSeq(seq) == IF seq = <<>> THEN 0 ELSE Head(seq) + SumSeq(Tail(seq))

SumOfScores == SumSeq([i \in FinalIndices |-> final_questions[i].Score_Pertinence])
SumOfCounts == SumSeq([i \in 1..Len(question_stats) |-> question_stats[i].count])

\* C13 as stated: whatever the target count, the occurrence counts of the returned items
\* add up to the number of input candidates. (Stated here for the target counts above 0
\* only, where the cut to target_count is the only thing that can drop an item.)
C13_ScoresAddUp_Original ==
    (cons_pc = "done" /\ cons_args.target_count > 0)
        => SumOfScores = Len(cons_args.questions_data)

\* C13 amended: the counts of the consolidated items before the cut to target_count add
\* up to the number of candidates; every returned item's count is the number of
\* candidates with its key; and the counts of the returned items add up to the number of
\* candidates when target_count is at least the number of distinct keys.
C13_ScoresAddUp ==
    cons_pc = "done" =>
        /\ SumOfCounts = Len(cons_args.questions_data)
        /\ \A i \in FinalIndices :
              final_questions[i].Score_Pertinence
                  = Cardinality(MergedInto(FinalKey(final_questions[i])))
        /\ cons_args.target_count >= Cardinality(DistinctKeys)
              => SumOfScores = Len(cons_args.questions_data)

\* C13 witness: three candidates, two of them merged, and both items returned
C13_Witness ==
    /\ cons_pc = "done"
    /\ Len(cons_args.questions_data) = 3
    /\ Len(final_questions) = 2
    /\ final_questions[1].Score_Pertinence = 2

\* C14: the call returns exactly min(k, number of distinct keys) items, and none for a
\* k below 0 (where that minimum is not a length).
C14_ReturnsMinOfTargetAndKeys ==
    cons_pc = "done" =>
        Len(final_questions) = Max(0, Min(cons_args.target_count, Cardinality(DistinctKeys)))

\* C15: the returned list is empty whenever target_count <= 0.
C15_EmptyForNonPositiveTarget ==
    (cons_pc = "done" /\ cons_args.target_count <= 0) => final_questions = <<>>

PairOf(f) == <<f.Score_Pertinence, f.Nb_Keywords>>
PairLess(f, g) ==
    \/ f.Score_Pertinence < g.Score_Pertinence
    \/ f.Score_Pertinence = g.Score_Pertinence /\ f.Nb_Keywords < g.Nb_Keywords

\* C16: the returned items are in descending order of (occurrence count, number of
\* distinct source keywords), and two returned items with equal pairs are in the order
\* in which their keys were first met in the input.
C16_SortedStable ==
    cons_pc = "done" =>
        \A i, j \in FinalIndices :
            i < j =>
                /\ ~PairLess(final_questions[i], final_questions[j])
                /\ PairOf(final_questions[i]) = PairOf(final_questions[j])
                      => FirstSeen(FinalKey(final_questions[i]))
                           < FirstSeen(FinalKey(final_questions[j]))

\* C16 witness: two returned items with equal counts, the one met later in the input
\* first because it has more source keywords
C16_Witness ==
    /\ cons_pc = "done"
    /\ Len(final_questions) = 2
    /\ final_questions[1].Score_Pertinence = final_questions[2].Score_Pertinence
    /\ final_questions[1].Nb_Keywords > final_questions[2].Nb_Keywords
    /\ FirstSeen(FinalKey(final_questions[1])) > FirstSeen(FinalKey(final_questions[2]))

----------------------------------------------------------------------------
(* generate_questions_from_themes: properties *)

\* a call that gets past line 665 and has returned
GenDone ==
    /\ gen_pc = "done"
    /\ gen_args.client /\ gen_args.themes # <<>> /\ gen_args.target_count > 0

ThemeCount == Len(gen_args.themes)
RequestIndices == 1..Len(requests)
\* the questions of a response that count: none of a null response, at most those asked
Delivered(r) == IF r.null THEN 0 ELSE Min(r.got, r.asked)
Shortfall(r) == r.asked - Delivered(r)
SumAsked == SumSeq([k \in RequestIndices |-> requests[k].asked])
DeliveredBefore(k) == SumSeq([m \in 1..(k - 1) |-> Delivered(requests[m])])
ShortfallBefore(k) == SumSeq([m \in 1..(k - 1) |-> Shortfall(requests[m])])
NoShortfall == \A k \in RequestIndices : Shortfall(requests[k]) = 0
\* the number of questions asked of the theme at position i (from 0), 0 when it was not asked
AskedOf(i) ==
    IF \E k \in RequestIndices : requests[k].index = i
        THEN (CHOOSE r \in {requests[k] : k \in RequestIndices} : r.index = i).asked
        ELSE 0
\* the share of the theme at position i when every theme delivers what it is asked for
FullDeliveryShare(i) ==
    IF gen_args.target_count >= ThemeCount
        THEN IF i < ThemeCount - 1
                THEN gen_args.target_count \div ThemeCount
                ELSE gen_args.target_count
                       - (ThemeCount - 1) * (gen_args.target_count \div ThemeCount)
        ELSE IF i < gen_args.target_count THEN 1 ELSE 0

C19_BaselineAndRemainder_Original ==
    (GenDone /\ NoShortfall) =>
        \A i \in 0..(ThemeCount - 1) :
            AskedOf(i) = IF i < ThemeCount - 1
                            THEN gen_args.target_count \div ThemeCount
                            ELSE gen_args.target_count
                                   - (ThemeCount - 1) * (gen_args.target_count \div ThemeCount)

\* C19 amended: the themes are taken by descending importance; when every theme delivers
\* what it is asked for and target_count >= themeCount, every theme but the last is asked
\* for target_count // themeCount and the last for the remainder; when
\* target_count < themeCount the share is 1 (line 672), the first target_count themes are
\* asked for one question each and the others, the last one too, for none.
C19_BaselineAndRemainder ==
    (GenDone /\ NoShortfall) =>
        /\ \A i, j \in 1..Len(sorted_themes) :
              i < j => sorted_themes[i].importance >= sorted_themes[j].importance
        /\ \A i \in 0..(ThemeCount - 1) : AskedOf(i) = FullDeliveryShare(i)

\* C19 witness: three themes and target_count 4, asked for 1, 1 and 2
C19_Witness ==
    /\ GenDone
    /\ NoShortfall
    /\ ThemeCount = 3
    /\ <<AskedOf(0), AskedOf(1), AskedOf(2)>> = <<1, 1, 2>>
    /\ \E i \in 1..3 : gen_args.themes[i] # sorted_themes[i]

QuestionsOf(i) == {q \in 1..Len(all_questions) : all_questions[q].Question[1] = i}

\* C21: the call never returns more than target_count questions (none when
\* target_count <= 0), whatever the responses hold, also when a response has more
\* questions than were asked for; and it returns exactly target_count questions when
\* every response has exactly the questions asked for.
C21_NeverMoreThanTarget ==
    gen_pc = "done" =>
        /\ Len(all_questions) <= Max(0, gen_args.target_count)
        /\ (GenDone /\ \A k \in RequestIndices :
                          ~requests[k].null /\ requests[k].got = requests[k].asked)
              => Len(all_questions) = gen_args.target_count

\* C21 witness: a response with more questions than asked for, in a call that returned
\* exactly target_count questions from two themes
C21_Witness ==
    /\ GenDone
    /\ Len(requests) = 2
    /\ \E k \in RequestIndices : ~requests[k].null /\ requests[k].got > requests[k].asked
    /\ Len(all_questions) = gen_args.target_count

\* C22: a theme whose response is null adds no question; the loop goes on (the call is
\* never left before its return, and when the theme was not the last one the theme
\* after it is asked), and the questions kept of the other themes are all returned.
C22_NullResponseSkipped ==
    /\ gen_pc \in {"idle", "entered", "loop", "done"}
    /\ \A k \in RequestIndices :
          LET r == requests[k] IN
          /\ r.null => QuestionsOf(r.index) = {}
          /\ Cardinality(QuestionsOf(r.index)) = Delivered(r)
          /\ (r.null /\ gen_pc = "done" /\ r.index < ThemeCount - 1)
                => \E m \in RequestIndices : requests[m].index = r.index + 1

\* C22 witness: three themes, the second got a null response, the first and the third
\* delivered, and their questions are returned
C22_Witness ==
    /\ GenDone
    /\ Len(requests) = 3
    /\ requests[2].null
    /\ QuestionsOf(0) # {} /\ QuestionsOf(1) = {} /\ QuestionsOf(2) # {}

----------------------------------------------------------------------------
(* 1_advanced_scrap.py: properties *)

\* C27: when main gets no categories from the notebook and the categories file is missing
\* or is not valid JSON, the extractor it builds has the default question prefixes and
\* the suffixes of all the default suffix categories, as when no categories are passed.
C27_FallbackToDefaultCategories ==
    (main_pc = "built" /\ main_in.notebook.none /\ main_in.file \in {"missing", "invalid_json"})
        => /\ extractor.prefixes = Lookup(default_categories, "question")
           /\ extractor.suffixes = Suffixes(default_categories)

\* C28: after construction the delay applied between two queries is the delay argument
\* when use_delay is true and 0 when it is false.
C28_DelayConfigurable ==
    main_pc = "built" =>
        DelayApplied(extractor) = IF main_in.use_delay THEN main_in.delay ELSE 0

\* the attempts among the logged events, by position in the log
Attempts == {i \in 1..Len(async_events) : async_events[i].event # "sleep"}
Answered200 == {i \in Attempts : async_events[i].status = 200}
Succeeded == {i \in Attempts : async_events[i].event = "ok"}
LastAttempt == CHOOSE i \in Attempts : \A j \in Attempts : j <= i
FirstOf(S) == CHOOSE i \in S : \A j \in S : i <= j

\* C23 as stated: the call makes at most 3 attempts and never raises; it stops at the
\* first attempt answered with status 200 and returns its suggestions cut to the limit;
\* when no attempt is answered with status 200 it returns an empty list after 3 attempts.
C23_StopsAtFirst200_Original ==
    /\ async_pc \in {"idle", "loop", "returned"}
    /\ Cardinality(Attempts) <= 3
    /\ async_pc = "returned" =>
          IF Answered200 # {}
            THEN /\ FirstOf(Answered200) = LastAttempt
                 /\ async_return = SubSeq(async_events[LastAttempt].body, 1,
                        Min(extractor.max_suggests_l1, Len(async_events[LastAttempt].body)))
            ELSE Cardinality(Attempts) = 3 /\ async_return = <<>>

\* C23 amended: the same, with "the first attempt answered with status 200 whose body is
\* read and parsed without an exception or the timeout" for "the first attempt answered
\* with status 200": an attempt that fails after its status 200 counts as a failure.
C23_StopsAtFirstSuccess ==
    /\ async_pc \in {"idle", "loop", "returned"}
    /\ Cardinality(Attempts) <= 3
    /\ \A i \in Succeeded : i = LastAttempt /\ async_pc = "returned"
    /\ async_pc = "returned" =>
          IF Succeeded # {}
            THEN async_return = SubSeq(async_events[LastAttempt].body, 1,
                        Min(extractor.max_suggests_l1, Len(async_events[LastAttempt].body)))
            ELSE Cardinality(Attempts) = 3 /\ async_return = <<>>

\* C23 witness: a return at the third attempt, after a status other than 200 and an
\* exception, with a body longer than the limit
C23_Witness ==
    /\ async_pc = "returned"
    /\ Cardinality(Attempts) = 3
    /\ async_events[1].event = "status"
    /\ \E i \in Attempts : async_events[i].event = "exception"
    /\ async_events[LastAttempt].event = "ok"
    /\ Len(async_events[LastAttempt].body) > Len(async_return)
    /\ async_return # <<>>

\* C24: every failed attempt that another attempt follows is followed by a wait first,
\* whatever the failure was, and no wait follows the last of the 3 attempts.
C24_BackoffBetweenAttempts ==
    \A i \in Attempts :
        async_events[i].event # "ok" =>
            IF async_events[i].n < max_retries - 1
                THEN i < Len(async_events) /\ async_events[i + 1].event = "sleep"
                ELSE i = Len(async_events)

\* the texts of the level-2 list of a level-1 suggestion in a returned result
Level2Of(parent) == UNION {p[2] : p \in {q \in extract_return.level2 : q[1] = parent}}

ExtractDone == ext_pc = "returned" /\ ~extract_return.error

\* C25: in the results of a finished extraction every text appears once across the
\* level-1 set and all level-2 lists: no level-2 text is a level-1 suggestion and no
\* text is in the level-2 lists of two level-1 suggestions.
C25_EachTextOnce ==
    ExtractDone =>
        \A parent \in extract_return.level1 :
            /\ Level2Of(parent) \cap extract_return.level1 = {}
            /\ \A other \in extract_return.level1 \ {parent} :
                   Level2Of(parent) \cap Level2Of(other) = {}

\* C26: level 2 is started only after level 1 has completed with at least one
\* suggestion and only when level 2 is enabled; in every returned result
\* level1_completed implies level1_started, level2_started implies level1_completed
\* and level2_completed implies level2_started; an empty level-1 set yields an error
\* result in which level 2 has not started.
C26_ProgressFlagsOrdered ==
    /\ (progress.level2_started \/ ext_pc = "level2")
          => /\ progress.level1_completed
             /\ results.suggests_level1 # {}
             /\ extractor.level2_enabled
    /\ ext_pc = "returned" =>
          /\ extract_return.progress = progress
          /\ progress.level1_completed => progress.level1_started
          /\ progress.level2_started => progress.level1_completed
          /\ progress.level2_completed => progress.level2_started
          /\ (progress.level1_completed /\ results.suggests_level1 = {})
                => extract_return.error /\ ~extract_return.progress.level2_started

C26_Witness ==
    /\ ext_pc = "returned"
    /\ ~extract_return.error
    /\ extract_return.progress.level2_completed
    /\ \E parent \in extract_return.level1 : Level2Of(parent) # {}

\* the stored analysis stage
Stage == session.analysis_results.stage

\* a step of the stored stage: none to 'themes_analyzed', 'themes_analyzed' to
\* 'questions_generated', or back to none in the script run of a click on Clear or on
\* the analysis button
C29_StageStep ==
    /\ Stage' # Stage =>
          \/ Stage = "None" /\ Stage' = "themes_analyzed"
          \/ Stage = "themes_analyzed" /\ Stage' = "questions_generated"
          \/ Stage' = "None" /\ ui_action \in {"clear", "analyze"}
    /\ (Stage' = "questions_generated" /\ Stage # "questions_generated") =>
          /\ Stage = "themes_analyzed"
          /\ session.analysis_metadata.generate_questions
          /\ widgets.selected_themes # {}
          /\ session'.analysis_results.all_questions_data # <<>>

\* the questions export as the sidebar of the running script has just rendered it
C29_ExportOffered ==
    (run_pc = "tab" /\ page.questions_export) =>
        /\ Stage = "questions_generated"
        /\ session.analysis_results.final_consolidated_data # <<>>

\* C29: the stored analysis stage only moves none -> 'themes_analyzed' ->
\* 'questions_generated'; 'questions_generated' is entered only from 'themes_analyzed'
\* with generate_questions set, at least one selected theme and at least one generated
\* question; only Clear or a new analysis leads back to none; the sidebar offers the
\* questions export only in stage 'questions_generated' with non-empty final data.
C29_StageMachine == [][C29_StageStep]_vars /\ []C29_ExportOffered

C29_Witness ==
    /\ run_pc = "page"
    /\ Stage = "questions_generated"
    /\ page.questions_export
    /\ ui_outcome = "generated"

\* a generation that raises or yields no question leaves the session as it was
C30_GenerationStep ==
    (run_pc = "generating" /\ ui_outcome' \in {"generation_error", "no_question"}) =>
        /\ session' = session
        /\ Stage = "themes_analyzed"

\* the session during and after an analysis, and at the end of a script run
C30_SessionAtRest ==
    /\ run_pc = "analysing" => session = NoSession
    /\ ui_outcome = "analysis_error" => session = NoSession
    /\ run_pc = "page" =>
          (session.analysis_results = NoneValue <=> session.analysis_metadata = NoneValue)

\* C30: a new analysis first resets analysis_results, analysis_metadata and
\* themes_selection to None; if the analysis raises the three stay None; when a script
\* run has ended analysis_results is None exactly when analysis_metadata is None; a
\* question generation that raises or yields no question leaves analysis_results
\* unchanged in stage 'themes_analyzed'.
C30_ResetThenStoreTogether == [][C30_GenerationStep]_vars /\ []C30_SessionAtRest

\* an analysis started from generated questions has raised: the page still shows what
\* its sidebar rendered before the reset
C30_Witness ==
    /\ run_pc = "page"
    /\ ui_outcome = "analysis_error"
    /\ page.questions_export
    /\ session = NoSession

====
